---- MODULE Spec2Model ----
(***************************************************************************)
(* Model of cascade.py: the Person.phone property (normalising setter and  *)
(* formatting getter) and the declarative schema (Species, Breed, Shelter, *)
(* Pet, Person, PetPersonAssociation) driven through one session with      *)
(* add_all/add and commit.                                                 *)
(*                                                                         *)
(* Strings are sequences of one-character strings.  A nullable string      *)
(* column holds the empty tuple (None) or a one-element tuple with the     *)
(* string.  A nullable integer column holds NULL (0) or a key >= 1.        *)
(***************************************************************************)
EXTENDS Integers, Sequences, FiniteSets, TLC

VARIABLES _phone, call, outcome, ret, written, made,
          breed_species, pet_breed, pet_shelter, pet_parent, pet_people,
          person_pets, assoc, session, id, db, crashed

\* _phone    Person._phone of each Person (138)
\* call      the setter call in progress, <<[self, value, init]>>, or << >>
\* outcome   how the last call ended: "ok", "Exception" (161), "TypeError"
\* ret       what the last read of person.phone returned, with its person
\* written   history: the non-separator characters of the value each
\*           Person's last accepted write was given
\* made      the objects constructed so far
\* breed_species, pet_breed, pet_shelter, pet_parent, pet_people, person_pets
\*           the relationship attributes (42-127); pets is the backref of people
\* assoc     pet_id and person_id of each PetPersonAssociation (197-198)
\* session   the objects in db_session; id their primary keys (NULL: no row)
\* db        the committed rows of each table; crashed: a commit raised
phone_vars == <<_phone, call, outcome, ret, written>>

orm_vars == <<breed_species, pet_breed, pet_shelter, pet_parent, pet_people,
              person_pets, assoc, session, id, db, crashed>>

vars == <<phone_vars, made, orm_vars>>

----------------------------------------------------------------------------
(* Bounds and inputs of the phone property *)

\* at most this many separator characters are inserted into a digit string
MaxSeps == 2

PersonObjs == {"Tom", "Sue"}

None == << >>

Some(s) == <<s>>

Separators == {"-", " "}

\* '5555555555' (269), '5552439988' (275), one digit short, one digit long,
\* and ten characters of which the last is no digit
Bases ==
  { <<"5","5","5","5","5","5","5","5","5","5">>,
    <<"5","5","5","2","4","3","9","9","8","8">>,
    <<"5","5","5","2","4","3","9","9","8">>,
    <<"5","5","5","2","4","3","9","9","8","8","1">>,
    <<"5","5","5","2","4","3","9","9","8","x">> }

DecimalDigits == {"0","1","2","3","4","5","6","7","8","9"}

InsertAt(s, i, c) == SubSeq(s, 1, i) \o <<c>> \o SubSeq(s, i + 1, Len(s))

RECURSIVE WithSeps(_)
WithSeps(k) ==
  IF k = 0 THEN Bases
  ELSE LET S == WithSeps(k - 1)
       IN  S \cup UNION { { InsertAt(s, i, c) : i \in 0..Len(s), c \in Separators } : s \in S }

\* every value handed to the setter: a base with up to MaxSeps separators
\* inserted anywhere
Inputs == WithSeps(MaxSeps)

----------------------------------------------------------------------------
(* Person.phone *)

PhoneLen == 10

Min(a, b) == IF a < b THEN a ELSE b

\* Python slice s[a:b] for 0 <= a <= b: clamped to the length of s
Slice(s, a, b) == SubSeq(s, Min(a, Len(s)) + 1, Min(b, Len(s)))

\* replace(old, new, 1): only the first occurrence is replaced
replace_first(s, old, new) ==
  IF \E i \in 1..Len(s) : s[i] = old
  THEN LET i == CHOOSE j \in 1..Len(s) : s[j] = old /\ \A k \in 1..(j - 1) : s[k] # old
       IN  SubSeq(s, 1, i - 1) \o new \o SubSeq(s, i + 1, Len(s))
  ELSE s

\* str.replace(old, new) for a one-character old: every occurrence, left to right
RECURSIVE replace(_, _, _)
replace(s, old, new) ==
  IF s = << >> THEN << >>
  ELSE IF Head(s) = old THEN new \o replace(Tail(s), old, new)
       ELSE <<Head(s)>> \o replace(Tail(s), old, new)

\* the space removal of line 158 left out
normalize_hyphens_only(value) == SelectSeq(value, LAMBDA c : c # "-")

\* lines 156-158: remove any hyphens, then any spaces
normalize(value) == replace(replace(value, "-", << >>), " ", << >>)

\* the second group cut at offset 7 instead of 6
phone_split_at_7(num) ==
  SubSeq(num, 1, 3) \o <<"-">> \o SubSeq(num, 4, 7) \o <<"-">> \o SubSeq(num, 8, Len(num))

\* lines 147-149: "%s-%s-%s" % (num[0:3], num[3:6], num[6:10])
phone(num) == Slice(num, 0, 3) \o <<"-">> \o Slice(num, 3, 6) \o <<"-">> \o Slice(num, 6, 10)

\* the characters of value that are neither hyphen nor space, in order
DigitSeq(value) == SelectSeq(value, LAMBDA c : c \notin Separators)

Idle == call = << >>

\* Person(first_name=..., last_name=..., age=..., phone=value), 266-275:
\* the constructor assigns the keyword through the phone setter
new_person(p) ==
  /\ Idle
  /\ p \notin made
  /\ \E value \in Inputs : call' = <<[self |-> p, value |-> value, init |-> TRUE]>>
  /\ outcome' = "none"
  /\ ret' = None
  /\ UNCHANGED <<_phone, written, made, orm_vars>>

\* Person(first_name=..., last_name=...) with no phone keyword: _phone stays None
new_person_no_phone(p) ==
  /\ Idle
  /\ p \notin made
  /\ made' = made \cup {p}
  /\ outcome' = "ok"
  /\ ret' = None
  /\ UNCHANGED <<_phone, written, call, orm_vars>>

\* person.phone = value on a constructed Person
write_phone(p) ==
  /\ Idle
  /\ p \in made
  /\ \E value \in Inputs : call' = <<[self |-> p, value |-> value, init |-> FALSE]>>
  /\ outcome' = "none"
  /\ ret' = None
  /\ UNCHANGED <<_phone, written, made, orm_vars>>

\* the setter with the assignment of line 164 ahead of the check of line 160
phone_setter_write_then_check ==
  /\ call # << >>
  /\ LET c == call[1]
         number == SelectSeq(c.value, LAMBDA ch : ch \notin {"-", " "})
     IN  /\ _phone' = [_phone EXCEPT ![c.self] = <<number>>]
         /\ written' = [written EXCEPT ![c.self] = <<number>>]
         /\ IF Len(number) # 10
            THEN outcome' = "Exception" /\ UNCHANGED made
            ELSE outcome' = "ok" /\ made' = made \cup {c.self}
  /\ call' = << >>
  /\ ret' = << >>
  /\ UNCHANGED orm_vars

\* the setter with line 164 writing value instead of number
phone_setter_stores_value ==
  /\ call # << >>
  /\ LET c == call[1]
         number == SelectSeq(c.value, LAMBDA ch : ch \notin {"-", " "})
     IN  IF Len(number) # 10
         THEN /\ outcome' = "Exception"
              /\ UNCHANGED <<_phone, written, made>>
         ELSE /\ outcome' = "ok"
              /\ _phone' = [_phone EXCEPT ![c.self] = <<c.value>>]
              /\ written' = [written EXCEPT ![c.self] = <<number>>]
              /\ made' = made \cup {c.self}
  /\ call' = << >>
  /\ ret' = << >>
  /\ UNCHANGED orm_vars

\* lines 152-164, the body of the setter, for the call in progress
phone_setter ==
  /\ ~Idle
  /\ LET c == call[1]
         number == normalize(c.value)
     IN  IF Len(number) # PhoneLen
         THEN /\ outcome' = "Exception"
              /\ UNCHANGED <<_phone, written, made>>
         ELSE /\ outcome' = "ok"
              /\ _phone' = [_phone EXCEPT ![c.self] = Some(number)]
              /\ written' = [written EXCEPT ![c.self] = Some(DigitSeq(c.value))]
              /\ made' = made \cup {c.self}
  /\ call' = << >>
  /\ ret' = None
  /\ UNCHANGED orm_vars

\* lines 143-149, reading person.phone; None is not subscriptable
phone_getter(p) ==
  /\ Idle
  /\ p \in made
  /\ IF _phone[p] = None
     THEN outcome' = "TypeError" /\ ret' = None
     ELSE outcome' = "ok" /\ ret' = Some([self |-> p, value |-> phone(_phone[p][1])])
  /\ UNCHANGED <<_phone, written, made, call, orm_vars>>

----------------------------------------------------------------------------
(* The schema and the session *)

NoObj == "None"

NULL == 0

SpeciesObjs == {"Dog"}

BreedObjs == {"Dalmatian", "Golden Retriever"}

ShelterObjs == {"Happy Animal Place"}

PetObjs == {"Spot", "Goldie"}

AssocObjs == {"assoc1", "assoc2"}

\* objects are flushed table by table in this order
Order ==
  <<"Dog", "Dalmatian", "Golden Retriever", "Happy Animal Place",
    "Tom", "Sue", "Spot", "Goldie", "assoc1", "assoc2">>

Pos(o) == CHOOSE i \in 1..Len(Order) : Order[i] = o

\* __tablename__ of the class of o
TableOf(o) ==
  CASE o \in SpeciesObjs -> "species"
    [] o \in BreedObjs -> "breed"
    [] o \in ShelterObjs -> "shelter"
    [] o \in PersonObjs -> "person"
    [] o \in PetObjs -> "pet"
    [] o \in AssocObjs -> "pet_person_association"

\* the relationship attributes of the objects in memory
Graph ==
  [breed_species |-> breed_species, pet_breed |-> pet_breed,
   pet_shelter |-> pet_shelter, pet_parent |-> pet_parent,
   pet_people |-> pet_people]

\* the objects one relationship or backref away from o:
\* Species.breeds/Breed.species (42), Breed.pets/Pet.breed (60),
\* Shelter.pets/Pet.shelter (94), Pet.parent/Pet.children (122),
\* Pet.people/Person.pets (126-127)
Related(g, o) ==
  CASE o \in SpeciesObjs -> {b \in BreedObjs : g.breed_species[b] = o}
    [] o \in BreedObjs ->
         ({g.breed_species[o]} \ {NoObj}) \cup {p \in PetObjs : g.pet_breed[p] = o}
    [] o \in ShelterObjs -> {p \in PetObjs : g.pet_shelter[p] = o}
    [] o \in PersonObjs -> {p \in PetObjs : o \in g.pet_people[p]}
    [] o \in PetObjs ->
         (({g.pet_breed[o], g.pet_shelter[o], g.pet_parent[o]} \ {NoObj})
            \cup g.pet_people[o] \cup {p \in PetObjs : g.pet_parent[p] = o})
    [] OTHER -> {}

\* no cascade: only the objects handed to the session are in it
cascade_off(g, S) == S

\* the save-update cascade: everything reachable from S over relationships
RECURSIVE cascade(_, _)
cascade(g, S) ==
  LET T == S \cup UNION { Related(g, o) : o \in S }
  IN  IF T = S THEN S ELSE cascade(g, T)

Running == Idle /\ ~crashed

\* Breed(name=b, species=sp), sp an existing Species, Species(name=sp) made
\* in place (286), or left out
new_breed(b, sp) ==
  /\ Running
  /\ b \in BreedObjs \ made
  /\ sp \in SpeciesObjs \cup {NoObj}
  /\ made' = made \cup {b} \cup ({sp} \ {NoObj})
  /\ breed_species' = [breed_species EXCEPT ![b] = sp]
  /\ session' = cascade([Graph EXCEPT !.breed_species = breed_species'], session)
  /\ UNCHANGED <<phone_vars, pet_breed, pet_shelter, pet_parent, pet_people,
                 person_pets, assoc, id, db, crashed>>

\* Pet(name=p, breed=b, shelter=h, parent=par, people=ppl), 283-301 and 402-403
new_pet(p, b, h, par, ppl) ==
  /\ Running
  /\ p \in PetObjs \ made
  /\ b \in (BreedObjs \cap made) \cup {NoObj}
  /\ h \in ShelterObjs \cup {NoObj}
  /\ par \in (PetObjs \cap made) \cup {NoObj}
  /\ ppl \subseteq PersonObjs \cap made
  /\ made' = made \cup {p} \cup ({h} \ {NoObj})
  /\ pet_breed' = [pet_breed EXCEPT ![p] = b]
  /\ pet_shelter' = [pet_shelter EXCEPT ![p] = h]
  /\ pet_parent' = [pet_parent EXCEPT ![p] = par]
  /\ pet_people' = [pet_people EXCEPT ![p] = ppl]
  /\ person_pets' = [q \in PersonObjs |->
                       IF q \in ppl THEN person_pets[q] \cup {p} ELSE person_pets[q]]
  /\ session' = cascade([breed_species |-> breed_species, pet_breed |-> pet_breed',
                         pet_shelter |-> pet_shelter', pet_parent |-> pet_parent',
                         pet_people |-> pet_people'], session)
  /\ UNCHANGED <<phone_vars, breed_species, assoc, id, db, crashed>>

\* pet.people.append(person); the backref adds pet to person.pets
people_append(pet, person) ==
  /\ Running
  /\ pet \in PetObjs \cap made
  /\ person \in (PersonObjs \cap made) \ pet_people[pet]
  /\ pet_people' = [pet_people EXCEPT ![pet] = @ \cup {person}]
  /\ person_pets' = [person_pets EXCEPT ![person] = @ \cup {pet}]
  /\ session' = cascade([Graph EXCEPT !.pet_people = pet_people'], session)
  /\ UNCHANGED <<phone_vars, made, breed_species, pet_breed, pet_shelter,
                 pet_parent, assoc, id, db, crashed>>

\* the removal without the backref
people_remove_one_sided(pet, person) ==
  /\ ~crashed /\ call = << >>
  /\ pet \in PetObjs \cap made
  /\ person \in pet_people[pet]
  /\ pet_people' = [pet_people EXCEPT ![pet] = @ \ {person}]
  /\ UNCHANGED <<phone_vars, made, breed_species, pet_breed, pet_shelter,
                 pet_parent, person_pets, assoc, session, id, db, crashed>>

\* pet.people.remove(person), 308; the backref removes pet from person.pets
people_remove(pet, person) ==
  /\ Running
  /\ pet \in PetObjs \cap made
  /\ person \in pet_people[pet]
  /\ pet_people' = [pet_people EXCEPT ![pet] = @ \ {person}]
  /\ person_pets' = [person_pets EXCEPT ![person] = @ \ {pet}]
  /\ UNCHANGED <<phone_vars, made, breed_species, pet_breed, pet_shelter,
                 pet_parent, assoc, session, id, db, crashed>>

\* pet.parent_id = other.id, a column written with the key of a committed row
\* as in 386-394; pet_parent then stands for the row parent_id names
set_parent_id(pet, other) ==
  /\ Running
  /\ pet \in PetObjs /\ other \in PetObjs
  /\ id[pet] # NULL /\ id[other] # NULL
  /\ pet_parent[pet] # other
  /\ pet_parent' = [pet_parent EXCEPT ![pet] = other]
  /\ UNCHANGED <<phone_vars, made, breed_species, pet_breed, pet_shelter,
                 pet_people, person_pets, assoc, session, id, db, crashed>>

\* db_session.add_all(objs) / db_session.add(obj) with Pets, 304 and 405
add_all(objs) ==
  /\ Running
  /\ objs # {}
  /\ objs \subseteq (PetObjs \cap made) \ session
  /\ session' = cascade(Graph, session \cup objs)
  /\ UNCHANGED <<phone_vars, made, breed_species, pet_breed, pet_shelter,
                 pet_parent, pet_people, person_pets, assoc, id, db, crashed>>

\* db_session.add(PetPersonAssociation(pet_id=pet.id, person_id=person.id)),
\* built from the keys of committed rows as the rows of 386-396 are
add_association(a, pet, person) ==
  /\ Running
  /\ a \in AssocObjs \ made
  /\ pet \in PetObjs /\ person \in PersonObjs
  /\ id[pet] # NULL /\ id[person] # NULL
  /\ made' = made \cup {a}
  /\ assoc' = [assoc EXCEPT ![a] = [pet_id |-> id[pet], person_id |-> id[person]]]
  /\ session' = session \cup {a}
  /\ UNCHANGED <<phone_vars, breed_species, pet_breed, pet_shelter, pet_parent,
                 pet_people, person_pets, id, db, crashed>>

\* the objects of the session that have no row yet
Pending == {o \in session : id[o] = NULL}

PendingOf(t) == {o \in Pending : TableOf(o) = t}

Rank(o) ==
  Cardinality({q \in PendingOf(TableOf(o)) : Pos(q) <= Pos(o)})

\* the primary key of o after the flush: autoincrement, id = row number
NewId(o) ==
  IF o = NoObj THEN NULL
  ELSE IF id[o] # NULL THEN id[o]
  ELSE Len(db[TableOf(o)]) + Rank(o)

\* the row the flush writes for o
Row(o) ==
  CASE o \in SpeciesObjs -> [name |-> o]
    [] o \in BreedObjs -> [name |-> o, species_id |-> NewId(breed_species[o])]
    [] o \in ShelterObjs -> [name |-> o]
    [] o \in PersonObjs -> [name |-> o, _phone |-> _phone[o]]
    [] o \in PetObjs ->
         [name |-> o, breed_id |-> NewId(pet_breed[o]),
          shelter_id |-> NewId(pet_shelter[o]), parent_id |-> NewId(pet_parent[o])]
    [] o \in AssocObjs -> assoc[o]

\* INSERT of the pending objects of table t, one row per object
Inserts(t) ==
  [i \in 1..Cardinality(PendingOf(t)) |->
     Row(CHOOSE o \in PendingOf(t) : Rank(o) = i)]

\* UPDATE of the rows of the Pets of the session, then the INSERTs
PetRows ==
  [i \in 1..Len(db.pet) |->
     IF \E p \in PetObjs : id[p] = i
     THEN Row(CHOOSE p \in PetObjs : id[p] = i)
     ELSE db.pet[i]] \o Inserts("pet")

\* the rows of the secondary table pet_person (101-104) for Pet.people
PetPersonRows ==
  UNION { { <<NewId(p), NewId(q)>> : q \in pet_people[p] } : p \in PetObjs \cap session }

\* pet.breed_id left nullable
not_null_species_only ==
  \A b \in {o \in session : id[o] = 0 /\ o \in BreedObjs} : breed_species[b] # "None"

\* nullable=False on breed.species_id (59) and pet.breed_id (117)
not_null_ok ==
  /\ \A b \in PendingOf("breed") : breed_species[b] # NoObj
  /\ \A p \in PendingOf("pet") : pet_breed[p] # NoObj

\* the table without its UniqueConstraint
unique_omitted == TRUE

\* UniqueConstraint('pet_id', 'person_id') (189-191) over the old and new rows
unique_ok ==
  LET rows == db.pet_person_association \o Inserts("pet_person_association")
  IN  \A i, j \in 1..Len(rows) :
        (rows[i].pet_id = rows[j].pet_id /\ rows[i].person_id = rows[j].person_id)
          => i = j

\* what the flush and COMMIT leave in the database
flushed ==
  [species |-> db.species \o Inserts("species"),
   breed |-> db.breed \o Inserts("breed"),
   shelter |-> db.shelter \o Inserts("shelter"),
   person |-> db.person \o Inserts("person"),
   pet |-> PetRows,
   pet_person |-> PetPersonRows,
   pet_person_association |->
     db.pet_person_association \o Inserts("pet_person_association")]

\* db_session.commit(), 305: flush and commit as a unit, or IntegrityError,
\* which the script does not catch
commit ==
  /\ Running
  /\ IF not_null_ok /\ unique_ok
     THEN /\ db' = flushed
          /\ id' = [o \in DOMAIN id |-> IF o \in session THEN NewId(o) ELSE id[o]]
          /\ UNCHANGED crashed
     ELSE /\ crashed' = TRUE
          /\ UNCHANGED <<db, id>>
  /\ UNCHANGED <<phone_vars, made, breed_species, pet_breed, pet_shelter,
                 pet_parent, pet_people, person_pets, assoc, session>>

Objs == SpeciesObjs \cup BreedObjs \cup ShelterObjs \cup PersonObjs \cup PetObjs \cup AssocObjs

OrmInit ==
  /\ breed_species = [b \in BreedObjs |-> NoObj]
  /\ pet_breed = [p \in PetObjs |-> NoObj]
  /\ pet_shelter = [p \in PetObjs |-> NoObj]
  /\ pet_parent = [p \in PetObjs |-> NoObj]
  /\ pet_people = [p \in PetObjs |-> {}]
  /\ person_pets = [q \in PersonObjs |-> {}]
  /\ assoc = [a \in AssocObjs |-> [pet_id |-> NULL, person_id |-> NULL]]
  /\ session = {}
  /\ id = [o \in Objs |-> NULL]
  /\ db = [species |-> << >>, breed |-> << >>, shelter |-> << >>, person |-> << >>,
           pet |-> << >>, pet_person |-> {}, pet_person_association |-> << >>]
  /\ crashed = FALSE

\* no object has been created
Init ==
  /\ _phone = [p \in PersonObjs |-> None]
  /\ written = [p \in PersonObjs |-> None]
  /\ made = {}
  /\ call = << >>
  /\ outcome = "none"
  /\ ret = None
  /\ OrmInit

\* the phone argument of each Person of the script, 269 and 275
ScriptPhone ==
  [p \in PersonObjs |->
     IF p = "Tom" THEN <<"5","5","5","-","5","5","5","-","5","5","5","5">>
     ELSE <<"5","5","5"," ","2","4","3"," ","9","9","8","8">>]

\* the state at line 276: tom and sue are constructed, the session is empty
SessionInit ==
  /\ _phone = [p \in PersonObjs |-> Some(normalize(ScriptPhone[p]))]
  /\ written = [p \in PersonObjs |-> Some(DigitSeq(ScriptPhone[p]))]
  /\ made = PersonObjs
  /\ call = << >>
  /\ outcome = "ok"
  /\ ret = None
  /\ OrmInit

PhoneNext ==
  \/ \E p \in PersonObjs : new_person(p)
  \/ \E p \in PersonObjs : new_person_no_phone(p)
  \/ \E p \in PersonObjs : write_phone(p)
  \/ phone_setter
  \/ \E p \in PersonObjs : phone_getter(p)

PhoneSpec == Init /\ [][PhoneNext]_vars

\* The session is driven in three groups of operations, each with the
\* constructors it needs: Pet.people, the cascade and commit (Spec); writes
\* of Pet.parent_id (ParentSpec); PetPersonAssociation rows (AssocSpec).
\* An uncaught IntegrityError ends the script, so nothing runs once crashed.

\* construction, cascade and commit (lines 278-310)
Next ==
  \/ \E b \in BreedObjs, sp \in SpeciesObjs \cup {NoObj} : new_breed(b, sp)
  \/ \E p \in PetObjs, b \in BreedObjs \cup {NoObj}, h \in ShelterObjs \cup {NoObj},
        par \in PetObjs \cup {NoObj}, ppl \in SUBSET PersonObjs :
       new_pet(p, b, h, par, ppl)
  \/ \E pet \in PetObjs, person \in PersonObjs : people_append(pet, person)
  \/ \E pet \in PetObjs, person \in PersonObjs : people_remove(pet, person)
  \/ \E objs \in SUBSET PetObjs : add_all(objs)
  \/ commit

Spec == SessionInit /\ [][Next]_vars

\* parents of committed Pets (lines 401-406 and writes of Pet.parent_id)
ParentNext ==
  \/ \E b \in BreedObjs, sp \in SpeciesObjs : new_breed(b, sp)
  \/ \E p \in PetObjs, b \in BreedObjs \cup {NoObj}, par \in PetObjs \cup {NoObj} :
       new_pet(p, b, NoObj, par, {})
  \/ \E pet \in PetObjs, other \in PetObjs : set_parent_id(pet, other)
  \/ \E objs \in SUBSET PetObjs : add_all(objs)
  \/ commit

ParentSpec == SessionInit /\ [][ParentNext]_vars

\* association rows for committed Pets and Persons
AssocNext ==
  \/ \E b \in BreedObjs : new_breed(b, "Dog")
  \/ \E p \in PetObjs, b \in BreedObjs, ppl \in SUBSET PersonObjs :
       new_pet(p, b, NoObj, NoObj, ppl)
  \/ \E objs \in SUBSET PetObjs : add_all(objs)
  \/ \E a \in AssocObjs, pet \in PetObjs, person \in PersonObjs :
       add_association(a, pet, person)
  \/ commit

AssocSpec == SessionInit /\ [][AssocNext]_vars


----------------------------------------------------------------------------
(* Properties of Person.phone (PhoneSpec) *)

Canonical(d) == Len(d) = PhoneLen /\ \A i \in 1..Len(d) : d[i] \in DecimalDigits

\* C1: a write whose value, with every hyphen and space taken out, is not
\* exactly 10 characters long raises the validation error and leaves every
\* stored phone, present or None, as it was.
C1_WrongLengthRejected ==
  [][ (call # << >> /\ Len(DigitSeq(call[1].value)) # PhoneLen)
        => (outcome' = "Exception" /\ _phone' = _phone /\ call' = << >>) ]_vars

\* a write failed while both persons held a stored phone
C1_Witness ==
  /\ outcome = "Exception"
  /\ made = PersonObjs
  /\ \A p \in PersonObjs : _phone[p] # None

\* C2: a stored phone, whenever present, is exactly 10 characters long and
\* holds no hyphen and no space, and a step changes a stored phone only when
\* it is the setter running a call.
C2_StoredIsTenNoSeparators ==
  /\ [](\A p \in PersonObjs :
         _phone[p] # None =>
           /\ Len(_phone[p][1]) = PhoneLen
           /\ \A i \in 1..Len(_phone[p][1]) : _phone[p][1][i] \notin Separators)
  /\ [][_phone' # _phone => (call # << >> /\ call' = << >>)]_vars

\* one person was built without a phone, the other holds a stored phone, and
\* the last write failed
C2_Witness ==
  /\ made = PersonObjs
  /\ \E p \in PersonObjs : _phone[p] = None
  /\ \E p \in PersonObjs : _phone[p] # None
  /\ outcome = "Exception"

\* C3: a write of 10 decimal digits with hyphens and spaces inserted anywhere
\* succeeds and stores exactly those digits in their order, no separator left.
C3_TenDigitsAccepted ==
  [][ (call # << >> /\ Canonical(DigitSeq(call[1].value)))
        => /\ outcome' = "ok"
           /\ _phone'[call[1].self] = Some(DigitSeq(call[1].value))
           /\ Canonical(_phone'[call[1].self][1]) ]_vars

\* a write was accepted and the digits 5552439988 are stored in order
C3_Witness ==
  /\ outcome = "ok"
  /\ ret = None
  /\ \E p \in made : _phone[p] = Some(<<"5","5","5","2","4","3","9","9","8","8">>)

\* C4: reading the phone of a person whose stored value d is 10 decimal
\* digits returns the 12 characters d[1..3] - d[4..6] - d[7..10], and the read
\* changes no stored value.
C4_GetterFormat ==
  [][ ret' # None =>
        /\ _phone' = _phone
        /\ LET d == _phone[ret'[1].self][1]
               r == ret'[1].value
           IN  Canonical(d) =>
                 /\ Len(r) = 12
                 /\ r[4] = "-" /\ r[8] = "-"
                 /\ \A i \in 1..3 : r[i] = d[i]
                 /\ \A i \in 5..7 : r[i] = d[i - 1]
                 /\ \A i \in 9..12 : r[i] = d[i - 2] ]_vars

\* the getter returned 555-243-9988
C4_Witness ==
  /\ ret # None
  /\ ret[1].value = <<"5","5","5","-","2","4","3","-","9","9","8","8">>

\* C5: two accepted writes whose values have the same digit sequence leave the
\* same stored value and the same displayed phone, and writing a person's
\* displayed phone back to that person is accepted and leaves the stored
\* value as it was.
C5_RoundTrip ==
  /\ [](\A p, q \in PersonObjs :
         (written[p] # None /\ written[p] = written[q]) =>
           /\ _phone[p] = _phone[q]
           /\ phone(_phone[p][1]) = phone(_phone[q][1]))
  /\ [][ (/\ call # << >>
          /\ _phone[call[1].self] # None
          /\ call[1].value = phone(_phone[call[1].self][1]))
        => (outcome' = "ok" /\ _phone' = _phone) ]_vars

\* both persons accepted a write of the same digit sequence
C5_Witness ==
  /\ made = PersonObjs
  /\ written["Tom"] # None
  /\ written["Tom"] = written["Sue"]
  /\ outcome = "ok"

----------------------------------------------------------------------------
(* Properties of the schema and the session *)

SamePair(r1, r2) == r1.pet_id = r2.pet_id /\ r1.person_id = r2.person_id

\* a pending association names a pair that a row or another pending
\* association already has
DuplicatePending ==
  \E a \in PendingOf("pet_person_association") :
    \/ \E i \in 1..Len(db.pet_person_association) :
         SamePair(db.pet_person_association[i], assoc[a])
    \/ \E a2 \in PendingOf("pet_person_association") \ {a} : SamePair(assoc[a2], assoc[a])

\* C6: no two committed pet_person_association rows have the same
\* (pet_id, person_id), and while a pending association would duplicate a
\* pair no step changes the database or hands out a key: the commit fails.
C6_AssociationPairUnique ==
  /\ [](\A i, j \in 1..Len(db.pet_person_association) :
         SamePair(db.pet_person_association[i], db.pet_person_association[j]) => i = j)
  /\ [][DuplicatePending => (db' = db /\ id' = id)]_vars

\* a commit failed on a second association for a pair that has a row
C6_Witness ==
  /\ crashed
  /\ \E a \in PendingOf("pet_person_association") :
       \E i \in 1..Len(db.pet_person_association) :
         SamePair(db.pet_person_association[i], assoc[a])

\* the rows reached from row i by following parent_id at most n times
RECURSIVE Ancestors(_, _)
Ancestors(i, n) ==
  IF n = 0 \/ db.pet[i].parent_id = NULL \/ db.pet[i].parent_id > Len(db.pet) THEN {}
  ELSE {db.pet[i].parent_id} \cup Ancestors(db.pet[i].parent_id, n - 1)

\* C7: every committed Pet row's parent_id, if present, is the key of another
\* existing Pet row, and following parent_id from a row never returns to it.
C7_ParentForest ==
  \A i \in 1..Len(db.pet) :
    /\ db.pet[i].parent_id # NULL =>
         (db.pet[i].parent_id \in 1..Len(db.pet) /\ db.pet[i].parent_id # i)
    /\ i \notin Ancestors(i, Len(db.pet))

\* a pending Pet has no Breed, or a pending Breed has no Species
IncompletePending ==
  \/ \E p \in PendingOf("pet") : pet_breed[p] = NoObj
  \/ \E b \in PendingOf("breed") : breed_species[b] = NoObj

C9_PeoplePetsConsistent ==
  /\ [](\A pet \in PetObjs, person \in PersonObjs :
         person \in pet_people[pet] <=> pet \in person_pets[person])
  /\ [][\A pet \in PetObjs, person \in PersonObjs :
          (person \in pet_people[pet] /\ person \notin pet_people'[pet])
            => pet \notin person_pets'[person]]_vars

\* a person whose link to a pet is committed was removed from pet.people
\* (lines 305-309)
C9_Witness ==
  \E pet \in PetObjs, person \in PersonObjs :
    /\ id[pet] # NULL /\ id[person] # NULL
    /\ <<id[pet], id[person]>> \in db.pet_person
    /\ person \notin pet_people[pet]
    /\ pet \notin person_pets[person]

\* o has a key in ids and the row with that key in its table of d is the row of o
Persisted(o, ids, d) ==
  /\ ids[o] \in 1..Len(d[TableOf(o)])
  /\ d[TableOf(o)][ids[o]].name = o

\* C10: a commit that changes the database leaves every Pet of the session
\* with a row, and with it its Breed, that Breed's Species, its Shelter and
\* its people, each under its own key; a Species has one row however many
\* Breeds name it, and the Breed rows carry that row's key.
C10_CascadePersists ==
  [][db' # db =>
       /\ \A p \in PetObjs \cap session' :
            /\ Persisted(p, id', db')
            /\ pet_breed'[p] # NoObj /\ Persisted(pet_breed'[p], id', db')
            /\ breed_species'[pet_breed'[p]] # NoObj
            /\ Persisted(breed_species'[pet_breed'[p]], id', db')
            /\ pet_shelter'[p] # NoObj => Persisted(pet_shelter'[p], id', db')
            /\ \A q \in pet_people'[p] : Persisted(q, id', db')
            /\ db'.pet[id'[p]].breed_id = id'[pet_breed'[p]]
            /\ db'.breed[id'[pet_breed'[p]]].species_id = id'[breed_species'[pet_breed'[p]]]
       /\ \A sp \in SpeciesObjs :
            Cardinality({i \in 1..Len(db'.species) : db'.species[i].name = sp}) <= 1
  ]_vars

\* Spot and Goldie were added and committed: two Pet rows, two Breed rows
\* naming the one Species row, the Shelter row and both Person rows
C10_Witness ==
  /\ Len(db.pet) = 2 /\ Len(db.breed) = 2 /\ Len(db.species) = 1
  /\ db.breed[1].species_id = 1 /\ db.breed[2].species_id = 1
  /\ db.pet[1].breed_id # db.pet[2].breed_id
  /\ Len(db.shelter) = 1 /\ Len(db.person) = 2
  /\ ~crashed

====
